---- MODULE Spec2Model ----
(***************************************************************************)
(* scripts/generate-pptx.py: one run of main(), from argument checking to  *)
(* the saved presentation.                                                 *)
(*                                                                         *)
(* Numbers.  Python computes with floats; the model computes with exact    *)
(* fixed-point rationals (IEEE rounding is not modelled):                  *)
(*   - a pixel quantity is an integer count of tenths of a pixel, so that  *)
(*     layout["width"] * 0.8 is exact;                                     *)
(*   - an inch quantity is an integer count of 1/InchDen inch, with        *)
(*     InchDen = 20 * DPI, so that px / DPI and box_width / 2 are exact;   *)
(*   - a point quantity is an integer count of 1/(10 * DPI) point;         *)
(*   - Inches() and Pt() convert to whole EMU as python-pptx does, by      *)
(*     int(), which truncates.                                             *)
(* Strings that the program takes apart (text, color) are sequences of     *)
(* one-character strings.                                                  *)
(***************************************************************************)
EXTENDS Integers, Sequences, FiniteSets, TLC

VARIABLES
    argc,           \* len(sys.argv)
    bg,             \* what sys.argv[1] names: "missing", "image", "other"
    layoutFile,     \* what sys.argv[2] names: "missing", "malformed", "json"
    layout,         \* the parsed content of the layout file
    pc,             \* position of main()
    width_in,       \* local width_in   (inch quantity)
    height_in,      \* local height_in  (inch quantity)
    slide,          \* prs.slide_width / prs.slide_height, in EMU
    shapes,         \* slide.shapes, in insertion order
    idx,            \* 1-based position of the for loop in layout["elements"]
    calls,          \* locals of each loop iteration at its add_textbox call
    written,        \* what has been written to the output path, in order
    stdout,         \* lines printed to standard output
    stderr,         \* what was printed to standard error
    exitCode        \* process exit status, -1 while running

vars == <<argc, bg, layoutFile, layout, pc, width_in, height_in, slide,
          shapes, idx, calls, written, stdout, stderr, exitCode>>

----------------------------------------------------------------------------
(* Bounds of the model *)

MaxElems == 2

----------------------------------------------------------------------------
(* Fixed-point arithmetic *)

DPI == 300

InchDen == 20 * DPI

\* a JSON number n as a pixel quantity
Num(n) == n * 10

\* int(n / d): truncation toward zero
Trunc(n, d) == IF n >= 0 THEN n \div d ELSE -((-n) \div d)

Max0(v) == IF 0 >= v THEN 0 ELSE v

\* a conversion at screen resolution instead of DPI
px_to_inches_96(px) == (px * InchDen) \div (10 * 96)

px_to_inches(px) == (px * InchDen) \div (10 * DPI)

\* pptx.util.Inches(v) = int(v * 914400) EMU, v in 1/InchDen inch
Inches(v) == Trunc(v * (914400 \div 600), InchDen \div 600)

\* pptx.util.Pt(v) = int(v * 12700) EMU, v in 1/(10 * DPI) point
Pt(v) == Trunc(v * (12700 \div 100), (10 * DPI) \div 100)

----------------------------------------------------------------------------
(* Strings as character sequences *)

HexLower == <<"0","1","2","3","4","5","6","7","8","9","a","b","c","d","e","f">>
HexUpper == <<"0","1","2","3","4","5","6","7","8","9","A","B","C","D","E","F">>

IsHexDigit(c) == \E k \in 1..16 : HexLower[k] = c \/ HexUpper[k] = c

HexVal(c) == (CHOOSE k \in 1..16 : HexLower[k] = c \/ HexUpper[k] = c) - 1

\* Python slice s[a:b]
Slice(s, a, b) ==
    LET hi == IF b < Len(s) THEN b ELSE Len(s)
    IN  IF a >= hi THEN <<>> ELSE SubSeq(s, a + 1, hi)

RECURSIVE lstrip(_, _)
lstrip(s, c) == IF s # <<>> /\ Head(s) = c THEN lstrip(Tail(s), c) ELSE s

\* int(s, 16) for the at most two characters of a slice; -1 stands for ValueError
ParseHex(s) ==
    IF s = <<>> \/ \E k \in 1..Len(s) : ~IsHexDigit(s[k]) THEN -1
    ELSE IF Len(s) = 1 THEN HexVal(s[1])
    ELSE 16 * HexVal(s[1]) + HexVal(s[2])

hex_to_rgb(hex_color) ==
    LET h == lstrip(hex_color, "#")
        r == ParseHex(Slice(h, 0, 2))
        g == ParseHex(Slice(h, 2, 4))
        b == ParseHex(Slice(h, 4, 6))
    IN  [ok |-> r >= 0 /\ g >= 0 /\ b >= 0, rgb |-> <<r, g, b>>]

\* an alignment that tests for "center" where the x adjustment tests for "middle"
get_alignment_center(anchor) ==
    IF anchor = "center" THEN "CENTER"
    ELSE IF anchor = "end" THEN "RIGHT"
    ELSE "LEFT"

get_alignment(anchor) ==
    IF anchor = "middle" THEN "CENTER"
    ELSE IF anchor = "end" THEN "RIGHT"
    ELSE "LEFT"

----------------------------------------------------------------------------
(* python-pptx paragraph text: p.text = s replaces the content by runs and  *)
(* line breaks; line feed and vertical tab delimit runs, empty runs are    *)
(* not added (CT_TextParagraph.append_text of the python-pptx releases that *)
(* pip installs; the script pins no version).                              *)

LF == "\n"
\* the vertical tab character, which has no escape in a TLA+ string
VT == "<VT>"

IsBreak(c) == c = LF \/ c = VT

RECURSIVE SplitLines(_)
SplitLines(s) ==
    IF \A k \in 1..Len(s) : ~IsBreak(s[k]) THEN <<s>>
    ELSE LET k == CHOOSE j \in 1..Len(s) :
                      IsBreak(s[j]) /\ \A m \in 1..(j - 1) : ~IsBreak(s[m])
         IN  <<SubSeq(s, 1, k - 1)>> \o SplitLines(SubSeq(s, k + 1, Len(s)))

NoFont == [set |-> {}, size |-> 0, bold |-> FALSE, rgb |-> <<>>, name |-> ""]

Run(t) == [kind |-> "r", text |-> t, font |-> NoFont]
Break == [kind |-> "br", text |-> <<>>, font |-> NoFont]

RECURSIVE AppendParts(_, _)
AppendParts(parts, k) ==
    IF k > Len(parts) THEN <<>>
    ELSE (IF k > 1 THEN <<Break>> ELSE <<>>)
         \o (IF parts[k] # <<>> THEN <<Run(parts[k])>> ELSE <<>>)
         \o AppendParts(parts, k + 1)

append_text(text) == AppendParts(SplitLines(text), 1)

\* positions of the a:r items of a paragraph: p.runs
RunPositions(items) == {k \in 1..Len(items) : items[k].kind = "r"}

----------------------------------------------------------------------------
(* Parsed JSON objects: keys is the set of keys present; the field of an    *)
(* absent key holds a filler that is never read.                            *)

Has(obj, k) == k \in obj.keys

\* dict.get(k, default)
Get(obj, k, default) == IF Has(obj, k) THEN obj[k] ELSE default

With(obj, k, v) == [obj EXCEPT ![k] = v, !.keys = @ \cup {k}]
Without(obj, k) == [obj EXCEPT !.keys = @ \ {k}]

Base ==
    [keys |-> {"text", "x", "y", "fontSize"},
     text |-> <<"H", "i">>, x |-> Num(500), y |-> Num(100), fontSize |-> Num(40),
     fontFamily |-> "", fontWeight |-> "", color |-> <<>>, anchor |-> "",
     maxWidth |-> 0]

Black == <<"#", "0", "0", "0", "0", "0", "0">>

\* elements that differ in position, anchor and maxWidth
GeoElements ==
    LET anchored == {Base} \cup {With(Base, "anchor", a) : a \in {"middle", "end"}}
        widened  == anchored
                    \cup {With(e, "maxWidth", Num(w)) : e \in anchored, w \in {0, 300}}
    IN  widened
        \cup {[e EXCEPT !.x = Num(100)] : e \in widened}
        \cup {With(Base, "anchor", a) : a \in {"start", "center"}}
        \cup {[Base EXCEPT !.y = Num(20)]}

\* elements that differ in text and run styling
StyleElements ==
    {Base}
    \cup {[Base EXCEPT !.text = t] : t \in {<<>>, <<"a", LF, "b">>, <<LF, "b">>}}
    \cup {With(Base, "fontWeight", w) : w \in {"bold", "normal", "700"}}
    \cup {With(Base, "color", c) :
             c \in {<<"#", "a", "1", "b", "2", "c", "3">>,
                    <<"a", "1", "b", "2", "c", "3">>,
                    <<"#", "F", "F", "0", "0", "9", "e">>,
                    <<"#", "f", "f", "f">>}}
    \cup {With(Base, "fontFamily", "Georgia")}
    \cup {[Base EXCEPT !.fontSize = Num(90)]}

\* elements with a required key absent
BrokenElements == {Without(Base, k) : k \in {"text", "x", "y", "fontSize"}}

\* a TextElement of the Layout shape: required keys present, a non-negative
\* size, a color of six hex digits with an optional leading '#'
ConformingElement(e) ==
    /\ {"text", "x", "y", "fontSize"} \subseteq e.keys
    /\ Has(e, "color") =>
          LET h == lstrip(e.color, "#")
          IN  /\ Len(e.color) - Len(h) <= 1
              /\ Len(h) = 6
              /\ \A k \in 1..6 : IsHexDigit(h[k])
    /\ Has(e, "anchor") => e.anchor \in {"start", "middle", "end"}

SeqsUpTo(S, n) == UNION {[1..k -> S] : k \in 0..n}

LayoutsOver(E) ==
    {[keys |-> {"width", "height", "elements"}, width |-> Num(w),
      height |-> Num(1000), elements |-> els] :
        w \in {1000, 1001}, els \in SeqsUpTo(E, MaxElems)}

BrokenLayouts(E) ==
    {Without(l, k) : l \in {m \in LayoutsOver(E) : Len(m.elements) <= 1},
                     k \in {"width", "height", "elements"}}

NoLayout == [keys |-> {}, width |-> 0, height |-> 0, elements |-> <<>>]

ConformingLayout(l) ==
    /\ {"width", "height", "elements"} \subseteq l.keys
    /\ l.width > 0 /\ l.height > 0
    /\ \A k \in 1..Len(l.elements) : ConformingElement(l.elements[k])

----------------------------------------------------------------------------
(* State after the interpreter has loaded the script, for the inputs of one *)
(* run drawn from the element set E.                                        *)

InitOver(E) ==
    /\ argc \in {3, 4, 5}
    /\ bg \in {"missing", "image", "other"}
    /\ \/ layoutFile \in {"missing", "malformed"} /\ layout = NoLayout
       \/ layoutFile = "json" /\ layout \in LayoutsOver(E) \cup BrokenLayouts(E)
    /\ pc = "args"
    /\ width_in = 0
    /\ height_in = 0
    /\ slide = [width |-> 0, height |-> 0]
    /\ shapes = <<>>
    /\ idx = 1
    /\ calls = <<>>
    /\ written = <<>>
    /\ stdout = <<>>
    /\ stderr = "none"
    /\ exitCode = -1

Init == InitOver({Base, With(Base, "anchor", "middle"),
                  [Base EXCEPT !.text = <<>>],
                  With(Base, "color", <<"#", "f", "f", "f">>)}
                 \cup BrokenElements)

InitGeo == InitOver(GeoElements \cup {Without(Base, "x")})

InitStyle == InitOver(StyleElements \cup {Without(Base, "text")})

\* sys.exit(1) after a message, or an uncaught exception: the process ends
\* with status 1 and what the slide held is lost
Die(msg) ==
    /\ pc' = "done"
    /\ stderr' = msg
    /\ exitCode' = 1

Input == <<argc, bg, layoutFile, layout>>

----------------------------------------------------------------------------
(* main() *)

CheckArgs ==
    /\ pc = "args"
    /\ IF argc # 4 THEN Die("usage") ELSE pc' = "bg" /\ UNCHANGED <<stderr, exitCode>>
    /\ UNCHANGED <<Input, width_in, height_in, slide, shapes, idx, calls,
                   written, stdout>>

\* main() without the existence check of the background path
CheckBackgroundSkipped ==
    /\ pc = "bg"
    /\ pc' = "open"
    /\ UNCHANGED <<Input, width_in, height_in, slide, shapes, idx, calls,
                   written, stdout, stderr, exitCode>>

CheckBackground ==
    /\ pc = "bg"
    /\ IF bg = "missing" THEN Die("not found")
       ELSE pc' = "open" /\ UNCHANGED <<stderr, exitCode>>
    /\ UNCHANGED <<Input, width_in, height_in, slide, shapes, idx, calls,
                   written, stdout>>

LoadLayout ==
    /\ pc = "open"
    /\ IF layoutFile = "missing" THEN Die("FileNotFoundError")
       ELSE IF layoutFile = "malformed" THEN Die("JSONDecodeError")
       ELSE pc' = "size" /\ UNCHANGED <<stderr, exitCode>>
    /\ UNCHANGED <<Input, width_in, height_in, slide, shapes, idx, calls,
                   written, stdout>>

CanvasSize ==
    /\ pc = "size"
    /\ IF ~Has(layout, "width") \/ ~Has(layout, "height")
       THEN Die("KeyError") /\ UNCHANGED <<width_in, height_in>>
       ELSE /\ width_in' = px_to_inches(layout.width)
            /\ height_in' = px_to_inches(layout.height)
            /\ pc' = "slide"
            /\ UNCHANGED <<stderr, exitCode>>
    /\ UNCHANGED <<Input, slide, shapes, idx, calls, written, stdout>>

NewSlide ==
    /\ pc = "slide"
    /\ slide' = [width |-> Inches(width_in), height |-> Inches(height_in)]
    /\ pc' = "picture"
    /\ UNCHANGED <<Input, width_in, height_in, shapes, idx, calls, written,
                   stdout, stderr, exitCode>>

Picture(left, top, width, height) ==
    [kind |-> "picture", left |-> left, top |-> top, width |-> width,
     height |-> height]

\* add_picture reads the file: a path that exists but is no image raises
AddPicture ==
    /\ pc = "picture"
    /\ IF bg # "image" THEN Die("UnidentifiedImageError") /\ UNCHANGED shapes
       ELSE /\ shapes' = Append(shapes, Picture(Inches(0), Inches(0),
                                                Inches(width_in), Inches(height_in)))
            /\ pc' = "loop"
            /\ UNCHANGED <<stderr, exitCode>>
    /\ UNCHANGED <<Input, width_in, height_in, slide, idx, calls, written, stdout>>

\* the loop with prs.save() indented into its body: every finished iteration
\* writes the output
NextElementSaving ==
    /\ pc = "loop"
    /\ IF ~Has(layout, "elements") THEN Die("KeyError") /\ UNCHANGED written
       ELSE /\ pc' = IF idx > Len(layout.elements) THEN "save" ELSE "box"
            /\ written' = IF idx > 1
                           THEN Append(written, [slide |-> slide, shapes |-> shapes])
                           ELSE written
            /\ UNCHANGED <<stderr, exitCode>>
    /\ UNCHANGED <<Input, width_in, height_in, slide, shapes, idx, calls, stdout>>

\* for el in layout["elements"]
NextElement ==
    /\ pc = "loop"
    /\ IF ~Has(layout, "elements") THEN Die("KeyError")
       ELSE /\ pc' = IF idx > Len(layout.elements) THEN "save" ELSE "box"
            /\ UNCHANGED <<stderr, exitCode>>
    /\ UNCHANGED <<Input, width_in, height_in, slide, shapes, idx, calls,
                   written, stdout>>

\* the elements taken from the end of the array
el_reversed == layout.elements[Len(layout.elements) + 1 - idx]

el == layout.elements[idx]

\* x_in before clamping
AnchoredLeft(anchor, x_px, box_width) ==
    IF anchor = "middle" THEN px_to_inches(x_px) - box_width \div 2
    ELSE IF anchor = "end" THEN px_to_inches(x_px) - box_width
    ELSE px_to_inches(x_px)

\* el.get("maxWidth") or default: a maxWidth of 0 counts as absent
MaxWidthOrDefault(e, width) ==
    IF Has(e, "maxWidth") /\ e.maxWidth # 0 THEN e.maxWidth ELSE (width * 8) \div 10

MaxWidthOf(e, width) == Get(e, "maxWidth", (width * 8) \div 10)

AnchorOf(e) == Get(e, "anchor", "start")

BoxTop(y_px, font_size) == px_to_inches(y_px - font_size)

BoxHeight(font_size) == px_to_inches(font_size * 2)

\* no clamping
ClampNone(v) == v

Clamp(v) == Max0(v)

\* the locals of one iteration when it calls add_textbox
Locals(e, width) ==
    LET anchor    == AnchorOf(e)
        box_width == px_to_inches(MaxWidthOf(e, width))
        x_pre     == AnchoredLeft(anchor, e.x, box_width)
        y_pre     == BoxTop(e.y, e.fontSize)
    IN  [anchor |-> anchor, box_width |-> box_width,
         box_height |-> BoxHeight(e.fontSize),
         x_pre |-> x_pre, y_pre |-> y_pre,
         x_in |-> Clamp(x_pre), y_in |-> Clamp(y_pre)]

\* a new text box holds one empty paragraph
Textbox(left, top, width, height) ==
    [kind |-> "textbox", left |-> left, top |-> top, width |-> width,
     height |-> height, word_wrap |-> FALSE, items |-> <<>>, alignment |-> "none"]

AddTextbox ==
    /\ pc = "box"
    /\ IF ~({"x", "y", "fontSize"} \subseteq el.keys)
       THEN Die("KeyError") /\ UNCHANGED <<shapes, calls>>
       ELSE LET v == Locals(el, layout.width)
            IN  /\ calls' = Append(calls, v)
                /\ shapes' = Append(shapes, Textbox(Inches(v.x_in), Inches(v.y_in),
                                                    Inches(v.box_width),
                                                    Inches(v.box_height)))
                /\ pc' = "text"
                /\ UNCHANGED <<stderr, exitCode>>
    /\ UNCHANGED <<Input, width_in, height_in, slide, idx, written, stdout>>

SetParagraph(box, text, anchor) ==
    [box EXCEPT !.items = append_text(text), !.alignment = get_alignment(anchor)]

SetText ==
    /\ pc = "text"
    /\ LET n   == Len(shapes)
           box == [shapes[n] EXCEPT !.word_wrap = TRUE]
       IN  IF ~Has(el, "text")
           THEN Die("KeyError") /\ shapes' = [shapes EXCEPT ![n] = box]
           ELSE /\ shapes' = [shapes EXCEPT
                                 ![n] = SetParagraph(box, el.text, calls[idx].anchor)]
                /\ pc' = "run"
                /\ UNCHANGED <<stderr, exitCode>>
    /\ UNCHANGED <<Input, width_in, height_in, slide, idx, calls, written, stdout>>

FontPoints(font_size) == font_size * 72

\* bool(el.get("fontWeight")): any non-empty weight is bold
IsBoldTruthy(e) == Has(e, "fontWeight") /\ e.fontWeight # ""

IsBold(e) == Has(e, "fontWeight") /\ e.fontWeight = "bold"

ColorOf(e) == Get(e, "color", Black)

FamilyOf(e) == Get(e, "fontFamily", "Arial")

SizedBold(font, e) ==
    [font EXCEPT !.set = @ \cup {"size", "bold"},
                 !.size = Pt(FontPoints(e.fontSize)),
                 !.bold = IsBold(e)]

Colored(font, e) ==
    [font EXCEPT !.set = @ \cup {"rgb"}, !.rgb = hex_to_rgb(ColorOf(e)).rgb]

Named(font, e) == [font EXCEPT !.set = @ \cup {"name"}, !.name = FamilyOf(e)]

\* run = p.runs[0], then its font is set attribute by attribute
StyleRun ==
    /\ pc = "run"
    /\ LET n     == Len(shapes)
           items == shapes[n].items
           runs  == RunPositions(items)
       IN  IF runs = {}
           THEN Die("IndexError") /\ UNCHANGED <<shapes, idx>>
           ELSE LET k  == CHOOSE j \in runs : \A m \in runs : j <= m
                    f1 == SizedBold(items[k].font, el)
                    at(f) == [shapes EXCEPT ![n].items[k].font = f]
                IN  IF ~hex_to_rgb(ColorOf(el)).ok
                    THEN Die("ValueError") /\ shapes' = at(f1) /\ UNCHANGED idx
                    ELSE /\ shapes' = at(Named(Colored(f1, el), el))
                         /\ idx' = idx + 1
                         /\ pc' = "loop"
                         /\ UNCHANGED <<stderr, exitCode>>
    /\ UNCHANGED <<Input, width_in, height_in, slide, calls, written, stdout>>

Save ==
    /\ pc = "save"
    /\ written' = Append(written, [slide |-> slide, shapes |-> shapes])
    /\ pc' = "print"
    /\ UNCHANGED <<Input, width_in, height_in, slide, shapes, idx, calls,
                   stdout, stderr, exitCode>>

PrintPath ==
    /\ pc = "print"
    /\ stdout' = Append(stdout, "output_path")
    /\ pc' = "done"
    /\ exitCode' = 0
    /\ UNCHANGED <<Input, width_in, height_in, slide, shapes, idx, calls,
                   written, stderr>>

Next ==
    \/ CheckArgs
    \/ CheckBackground
    \/ LoadLayout
    \/ CanvasSize
    \/ NewSlide
    \/ AddPicture
    \/ NextElement
    \/ AddTextbox
    \/ SetText
    \/ StyleRun
    \/ Save
    \/ PrintPath

Spec == Init /\ [][Next]_vars

SpecGeo == InitGeo /\ [][Next]_vars

SpecStyle == InitStyle /\ [][Next]_vars

----------------------------------------------------------------------------
(* Properties *)

N == Len(layout.elements)

\* the text box made for the i-th element
Box(i) == shapes[i + 1]

\* the first run of the i-th text box: p.runs[0]
FirstRun(i) ==
    LET items == Box(i).items
    IN  items[CHOOSE j \in RunPositions(items) : \A m \in RunPositions(items) : j <= m]

\* EMU of a pixel quantity at 300 pixels per inch: 914400 / 300 = 3048 per pixel
EmuOfPx(px) == Trunc(px * 3048, 10)

GoodRun == argc = 4 /\ bg = "image" /\ layoutFile = "json" /\ ConformingLayout(layout)

\* C1: on a successful run the canvas is width/300 by height/300 inches
\* (px_to_inches(p) = p/300), and the first shape of the slide is the picture
\* at (0,0) whose width and height are the canvas width and height.
C1_Canvas ==
    /\ pc \in {"slide", "picture", "loop", "box", "text", "run", "save", "print"} =>
          /\ width_in * 10 * DPI = layout.width * InchDen
          /\ height_in * 10 * DPI = layout.height * InchDen
    /\ shapes # <<>> =>
          shapes[1] = Picture(0, 0, slide.width, slide.height)
    /\ exitCode = 0 =>
          /\ Len(written) = 1
          /\ written[1].slide = [width |-> EmuOfPx(layout.width),
                                 height |-> EmuOfPx(layout.height)]
          /\ written[1].shapes[1] = Picture(0, 0, EmuOfPx(layout.width),
                                            EmuOfPx(layout.height))

C1_Witness ==
    /\ exitCode = 0
    /\ layout.width = Num(1001)
    /\ written[1].slide = [width |-> 3051048, height |-> 3048000]
    /\ Len(written[1].shapes) = 3

\* the text box main() builds for element e of a layout of the given width
ExpectedBox(e, width) ==
    LET v    == Locals(e, width)
        box  == SetParagraph(
                    [Textbox(Inches(v.x_in), Inches(v.y_in), Inches(v.box_width),
                             Inches(v.box_height)) EXCEPT !.word_wrap = TRUE],
                    e.text, v.anchor)
        k    == CHOOSE j \in RunPositions(box.items) :
                    \A m \in RunPositions(box.items) : j <= m
    IN  [box EXCEPT !.items[k].font = Named(Colored(SizedBold(@, e), e), e)]

\* C2: on a successful run the saved slide holds the picture and then exactly
\* one text box per element, the i-th box made from the i-th element.
C2_OneBoxPerElementInOrder ==
    exitCode = 0 =>
        LET sh == written[1].shapes
        IN  /\ Len(sh) = N + 1
            /\ sh[1].kind = "picture"
            /\ \A i \in 1..N :
                  /\ sh[i + 1].kind = "textbox"
                  /\ sh[i + 1] = ExpectedBox(layout.elements[i], layout.width)

C2_Witness ==
    /\ exitCode = 0
    /\ N = 2
    /\ ExpectedBox(layout.elements[1], layout.width)
         # ExpectedBox(layout.elements[2], layout.width)
    /\ written[1].shapes[2].alignment = "CENTER"
    /\ written[1].shapes[3].alignment = "LEFT"

\* C3: alignment and the left edge before clamping follow the same anchor case:
\* "middle" gives CENTER and x/300 - width/2, "end" gives RIGHT and
\* x/300 - width, anything else (an absent anchor too) gives LEFT and x/300.
C3_AnchorCase ==
    \A i \in 1..Len(calls) :
        LET e       == layout.elements[i]
            c       == calls[i]
            x_in    == px_to_inches(e.x)
            aligned == Box(i).alignment # "none"
        IN  IF Has(e, "anchor") /\ e.anchor = "middle"
            THEN /\ 2 * c.x_pre = 2 * x_in - c.box_width
                 /\ aligned => Box(i).alignment = "CENTER"
            ELSE IF Has(e, "anchor") /\ e.anchor = "end"
            THEN /\ c.x_pre = x_in - c.box_width
                 /\ aligned => Box(i).alignment = "RIGHT"
            ELSE /\ c.x_pre = x_in
                 /\ aligned => Box(i).alignment = "LEFT"

C3_Witness ==
    /\ Len(calls) = 2
    /\ layout.elements[1].anchor = "middle" /\ Has(layout.elements[1], "anchor")
    /\ Box(1).alignment = "CENTER"
    /\ calls[1].x_pre = 2000
    /\ ~Has(layout.elements[2], "anchor")
    /\ Box(2).alignment = "LEFT"

C5_FailsBeforeLayout ==
    (argc # 4 \/ bg = "missing") =>
        /\ pc \in {"args", "bg", "done"}
        /\ written = <<>> /\ stdout = <<>> /\ shapes = <<>>
        /\ pc = "done" =>
              /\ exitCode = 1
              /\ stderr = IF argc # 4 THEN "usage" ELSE "not found"

C5_Witness ==
    /\ pc = "done" /\ exitCode = 1 /\ written = <<>>
    /\ argc = 4 /\ bg = "missing"
    /\ layoutFile = "json" /\ ConformingLayout(layout) /\ N = 2

RequiredKeysPresent ==
    /\ {"width", "height", "elements"} \subseteq layout.keys
    /\ \A i \in 1..N : {"text", "x", "y", "fontSize"} \subseteq layout.elements[i].keys

\* C6: the output is written at most once, only after every element has been
\* processed, and as the whole slide; a run on an unparsable layout file or on
\* a layout with a required key absent ends non-zero with nothing written.
C6_AllOrNothing ==
    /\ written # <<>> =>
          /\ Len(written) = 1
          /\ pc \in {"print", "done"}
          /\ idx = N + 1 /\ Len(shapes) = N + 1
          /\ written[1] = [slide |-> slide, shapes |-> shapes]
    /\ (layoutFile # "json" \/ ~RequiredKeysPresent) =>
          /\ written = <<>>
          /\ pc = "done" => exitCode > 0

\* the second element lacks a key, the first one was processed in full
C6_Witness ==
    /\ pc = "done" /\ exitCode = 1 /\ stderr = "KeyError" /\ written = <<>>
    /\ argc = 4 /\ bg = "image" /\ N = 2
    /\ ~Has(layout.elements[2], "text")
    /\ Len(shapes) = 3
    /\ Box(1).items = <<[Run(<<"H", "i">>) EXCEPT
                           !.font = [set |-> {"size", "bold", "rgb", "name"},
                                     size |-> 121920, bold |-> FALSE,
                                     rgb |-> <<0, 0, 0>>, name |-> "Arial"]]>>

\* C7: a run with three arguments, an existing image and a conforming layout
\* ends with status 0 having written the output once and then printed its
\* path; the path is never printed without the file having been written.
C7_GoodRunSucceeds ==
    /\ (GoodRun /\ pc = "done") =>
          exitCode = 0 /\ Len(written) = 1 /\ stdout = <<"output_path">>
    /\ stdout # <<>> => written # <<>>

\* C8: every text box of a conforming layout holds one paragraph with exactly
\* one run, whose text is the element's text and whose font carries the
\* element's size, bold flag, color and family.
C8_OneStyledRun ==
    GoodRun =>
        /\ pc = "done" => Len(shapes) = N + 1
        /\ \A i \in 1..N :
              (i < idx \/ (i = idx /\ pc = "run")) =>
                  /\ Len(Box(i).items) = 1
                  /\ Box(i).items[1].kind = "r"
                  /\ Box(i).items[1].text = layout.elements[i].text
                  /\ i < idx => Box(i).items[1].font.set =
                                    {"size", "bold", "rgb", "name"}

\* C9: box width is maxWidth/300 inches, maxWidth being the element's own value
\* when present and 0.8 * layout.width when absent; box height is
\* 2 * fontSize / 300 inches; the top before clamping is (y - fontSize)/300.
C9_BoxSize ==
    \A i \in 1..Len(calls) :
        LET e == layout.elements[i]
            c == calls[i]
        IN  /\ IF Has(e, "maxWidth")
               THEN c.box_width * 10 * DPI = e.maxWidth * InchDen
               ELSE c.box_width * 100 * DPI = 8 * layout.width * InchDen
            /\ c.box_height * 10 * DPI = 2 * e.fontSize * InchDen
            /\ c.y_pre * 10 * DPI = (e.y - e.fontSize) * InchDen
            /\ Box(i).width = Inches(c.box_width)
            /\ Box(i).height = Inches(c.box_height)

\* an explicit maxWidth of 0 is kept; the default of a 1001 pixel wide layout
\* is 800.8 pixels, 2440838.4 EMU, stored as 2440838
C9_Witness ==
    /\ Len(calls) = 2
    /\ Has(layout.elements[1], "maxWidth") /\ layout.elements[1].maxWidth = 0
    /\ Box(1).width = 0
    /\ ~Has(layout.elements[2], "maxWidth") /\ layout.width = Num(1001)
    /\ Box(2).width = 2440838
    /\ Box(2).height = 243840
    /\ calls[2].y_pre < 0

\* a color of six hex digits, with or without one leading '#'
SixHex(c) ==
    LET h == IF c # <<>> /\ Head(c) = "#" THEN Tail(c) ELSE c
    IN  Len(h) = 6 /\ \A k \in 1..6 : IsHexDigit(h[k])

Component(h, k) == 16 * HexVal(h[k]) + HexVal(h[k + 1])

\* C10: the first run of a styled box is bold exactly when fontWeight is
\* "bold", named fontFamily or "Arial", sized fontSize * 72 / 300 points and
\* colored by the three hex pairs of color ("#000000" when absent), the same
\* with and without a leading '#'.
C10_RunStyle ==
    \A i \in 1..Len(calls) :
        i < idx =>
            LET e == layout.elements[i]
                f == FirstRun(i).font
                c == IF Has(e, "color") THEN e.color ELSE Black
                h == IF Head(c) = "#" THEN Tail(c) ELSE c
            IN  /\ f.bold = (Has(e, "fontWeight") /\ e.fontWeight = "bold")
                /\ f.name = (IF Has(e, "fontFamily") THEN e.fontFamily ELSE "Arial")
                /\ f.size = EmuOfPx(e.fontSize)
                /\ SixHex(c) =>
                      /\ f.rgb = <<Component(h, 1), Component(h, 3), Component(h, 5)>>
                      /\ hex_to_rgb(h) = hex_to_rgb(<<"#">> \o h)

C10_Witness ==
    /\ Len(calls) = 2 /\ idx = 3
    /\ layout.elements[1].color = <<"a", "1", "b", "2", "c", "3">>
    /\ Has(layout.elements[1], "color")
    /\ FirstRun(1).font = [set |-> {"size", "bold", "rgb", "name"}, size |-> 121920,
                           bold |-> FALSE, rgb |-> <<161, 178, 195>>, name |-> "Arial"]
    /\ Has(layout.elements[2], "fontWeight")
    /\ layout.elements[2].fontWeight = "bold"
    /\ FirstRun(2).font.bold

====
